---- MODULE Spec2Model ----
(***************************************************************************)
(* The background batch-processing scheduler of backend/services/         *)
(* batch_processor.py (BatchProcessor), with the cache service, the       *)
(* notification service and the analytics repository it calls into.       *)
(*                                                                         *)
(* Time is in seconds.  A document collection is a bag of records,         *)
(* the cache a function from keys to entries that carry their expiry.     *)
(***************************************************************************)
EXTENDS Integers, Sequences, FiniteSets, Bags, TLC

VARIABLES
    running,        \* BatchProcessor.running
    app,            \* BatchProcessor.app (NoApp is Python's None)
    batch_threads,  \* BatchProcessor.batch_threads: name -> the registered Thread
    orphans,        \* the live loop threads batch_threads no longer references (a bag)
    stopper,        \* 1 while a stop_batch_processing call is in its join loop
    lastCall,       \* the control-surface call made last, and how it went
    result,         \* the value process_immediate_batch returned last
    now,            \* datetime.utcnow(), in seconds
    dbUp,           \* the document store answers (g.db operations do not raise)
    cacheUp,        \* CacheService.is_available()
    cacheStats,     \* Redis keyspace_hits / keyspace_misses
    events,         \* g.db.analytics_events
    skills,         \* g.db.shared_skills
    users,          \* g.db.users
    notifications,  \* g.db.notifications
    cache,          \* the Redis keyspace
    runs            \* calls followed step by step (digest passes, start calls),
                    \* one per execution context that is inside one

schedVars == <<running, app, batch_threads, orphans, stopper, lastCall>>
envVars == <<now, dbUp, cacheUp, cacheStats>>
storeVars == <<events, skills, users, notifications>>
dataVars == <<events, skills, users, notifications, cache>>
vars == <<running, app, batch_threads, orphans, stopper, lastCall, result,
          now, dbUp, cacheUp, cacheStats, events, skills, users,
          notifications, cache, runs>>

----------------------------------------------------------------------------
(* Universe of the model *)

Users == {"u1", "u2"}
Skills == {"s1", "s2"}
NoApp == "None"
TheApp == "app"
Apps == {NoApp, TheApp}

SecondsPerHour == 3600
SecondsPerDay == 86400

\* Model bounds
MaxOrphans == 1
MaxCounter == 3
MaxScore == 6
MaxDigests == 2
MaxUnread == 5
MaxEvents == 2
MaxTicks == 2

----------------------------------------------------------------------------
(* Collection helpers: a collection is a bag (a multiset) of documents *)

RECURSIVE SumCopies(_, _)
SumCopies(B, S) ==
    IF S = {} THEN 0
    ELSE LET e == CHOOSE x \in S : TRUE
         IN CopiesIn(e, B) + SumCopies(B, S \ {e})

\* insert_one
Insert(B, doc) == B (+) SetToBag({doc})

Docs(B) == BagToSet(B)

Remove(B, doc) == B (-) SetToBag({doc})

Replace(B, old, new) == Insert(Remove(B, old), new)

----------------------------------------------------------------------------
(* CacheService (backend/services/cache_service.py) *)

DEFAULT_TTL == 3600
MEDIUM_TTL == 1800
LONG_TTL == 86400
TRENDING_TTL == 900

\* Redis holds a key until its expiry time
Live(c, key) == key \in DOMAIN c /\ c[key].expires > now

\* Redis drops the keys whose time to live has run out
Expire(c, t) == [k \in {x \in DOMAIN c : c[x].expires > t} |-> c[k]]

\* CacheService.is_available
IsAvailable == cacheUp

\* CacheService.set: lists and dicts are stored as JSON text, any other
\* value pickled; a ttl of None or 0 becomes DEFAULT_TTL
CacheSet(c, key, value, isList, ttl) ==
    IF ~IsAvailable THEN c
    ELSE LET serialized == [enc |-> IF isList THEN "json" ELSE "pickle",
                            data |-> value]
             t == IF ttl = 0 THEN DEFAULT_TTL ELSE ttl
         IN [k \in DOMAIN c \cup {key} |->
                IF k = key THEN [value |-> serialized, expires |-> now + t]
                ELSE c[k]]

\* An exists that reports every key present while Redis is away; C29 does
\* not hold of it
CacheExistsFailClosed(c, key) ==
    IF ~IsAvailable THEN TRUE ELSE Live(c, key)

\* CacheService.exists
CacheExists(c, key) ==
    IF ~IsAvailable THEN FALSE ELSE Live(c, key)

\* CacheService.delete_pattern for the globs "<prefix>:*<id>*"
DeletePattern(c, prefix, id) ==
    IF ~IsAvailable THEN c
    ELSE [k \in {x \in DOMAIN c :
                    ~(x[1] = prefix /\ \E i \in 2..Len(x) : x[i] = id)} |-> c[k]]

\* CacheService.cache_trending_skills
CacheTrendingSkills(c, trending_data) ==
    CacheSet(c, <<"trending", "skills">>, trending_data, TRUE, TRENDING_TTL)

\* CacheService.get_cache_stats: hit_rate, in hundredths of a percent
\* (round(hits / total * 100, 2)); no "hit_rate" entry without Redis.
\* Where hits / total * 100 lies exactly halfway between two hundredths the
\* floating-point quotient decides which way round() goes; the model rounds
\* such a rate up and its initial states hold no such rate.
HitRate ==
    LET total == cacheStats.hits + cacheStats.misses
    IN IF total > 0
       THEN (2 * 10000 * cacheStats.hits + total) \div (2 * total)
       ELSE 0

\* A warm that leaves a list it finds in the cache; C28 does not hold of it
WarmCacheKeepsList(c, cache_type) ==
    IF ~IsAvailable THEN c
    ELSE IF cache_type \in {"all", "trending"} /\ ~Live(c, <<"trending", "skills">>)
         THEN CacheTrendingSkills(c, << >>)
         ELSE c

\* CacheService._warm_trending_cache via CacheService.warm_cache("trending")
WarmCache(c, cache_type) ==
    IF ~IsAvailable THEN c
    ELSE IF cache_type \in {"all", "trending"}
         THEN CacheTrendingSkills(c, << >>)
         ELSE c

----------------------------------------------------------------------------
(* The document store, passed around as one record d with the fields      *)
(* events, skills, users, notifications and cache                         *)

NoSkill == "no_skill"

EngagementEventTypes ==
    {"skill_view", "skill_like", "skill_download", "skill_comment"}

TrendingEventTypes == EngagementEventTypes \cup {"skill_share"}

EventTypes == TrendingEventTypes \cup {"profile_view"}

DigestNotificationTypes ==
    {"like_received", "comment_received", "follower_added"}

NotificationTypes == DigestNotificationTypes \cup {"skill_rated", "daily_digest"}

Data == [events |-> events, skills |-> skills, users |-> users,
         notifications |-> notifications, cache |-> cache]

\* Number of documents of collection B that lie in the set S
CountIn(B, S) == SumCopies(B, Docs(B) \cap S)

Max(S) == CHOOSE x \in S : \A y \in S : y <= x

----------------------------------------------------------------------------
(* NotificationService.create_notification, NotificationRepository.create *)

CreateNotification(ns, user_id, notification_type, unread_count) ==
    Insert(ns, [user_id |-> user_id,
                notification_type |-> notification_type,
                read |-> FALSE,
                created_at |-> now,
                unread_count |-> unread_count])

----------------------------------------------------------------------------
(* BatchProcessor._process_notification_digest *)

DigestWindow == 24 * SecondsPerHour
DigestThreshold == 5
DigestMarkerTTL == 86400

\* A $match stage without the read filter; C9 does not hold of it
DigestMatchAnyRead(n) ==
    /\ n.created_at >= now - DigestWindow
    /\ n.notification_type \in DigestNotificationTypes

\* The $match stage of the digest pipeline
DigestMatch(n) ==
    /\ n.read = FALSE
    /\ n.created_at >= now - DigestWindow
    /\ n.notification_type \in DigestNotificationTypes

\* The $group stage: unread_count of one user
DigestUnreadCount(ns, u) ==
    SumCopies(ns, {n \in Docs(ns) : DigestMatch(n) /\ n.user_id = u})

\* The pipeline's result: the users with at least 5 unread notifications
DigestCandidates(ns) ==
    {u \in Users : DigestUnreadCount(ns, u) >= DigestThreshold}

DigestKey(u) == <<"digest_sent", u>>

\* A loop body that never writes the marker; C7 does not hold of it
DigestOneNoMark(d, u, unread_count) ==
    IF ~CacheExists(d.cache, DigestKey(u))
    THEN [d EXCEPT
            !.notifications =
                CreateNotification(@, u, "daily_digest", unread_count)]
    ELSE d

\* The body of the candidate loop for one candidate
DigestOne(d, u, unread_count) ==
    IF ~CacheExists(d.cache, DigestKey(u))
    THEN [d EXCEPT
            !.notifications =
                CreateNotification(@, u, "daily_digest", unread_count),
            !.cache = CacheSet(@, DigestKey(u), TRUE, FALSE, DigestMarkerTTL)]
    ELSE d

RECURSIVE DigestLoop(_, _, _)
DigestLoop(d, todo, counts) ==
    IF todo = {} THEN d
    ELSE LET u == CHOOSE x \in todo : TRUE
         IN DigestLoop(DigestOne(d, u, counts[u]), todo \ {u}, counts)

\* One whole pass.  Without an app the pass returns at once; a store that
\* does not answer raises inside the try and the pass only logs.
ProcessNotificationDigest(d) ==
    IF app = NoApp THEN d
    ELSE IF ~dbUp THEN d
    ELSE LET cands == DigestCandidates(d.notifications)
             counts == [u \in cands |-> DigestUnreadCount(d.notifications, u)]
         IN DigestLoop(d, cands, counts)

\* Whether the pass logged an error (its except branch ran)
DigestFailed == app # NoApp /\ ~dbUp

----------------------------------------------------------------------------
(* BatchProcessor._update_skill_engagement_scores *)

EngagementWindow == 1 * SecondsPerHour

\* The $match stage of the skill pipeline
SkillMatch(e) ==
    /\ e.timestamp >= now - EngagementWindow
    /\ e.skill_id # NoSkill
    /\ e.event_type \in EngagementEventTypes

SkillEvents(ev, s) == {e \in Docs(ev) : SkillMatch(e) /\ e.skill_id = s}

TypeCount(ev, s, type) ==
    SumCopies(ev, {e \in SkillEvents(ev, s) : e.event_type = type})

\* An $addFields stage without the weights; C10 does not hold of it
EngagementScoreFlat(views, likes, downloads, comments, unique_users) ==
    views + likes + downloads + comments + unique_users

\* The $addFields stage
EngagementScore(views, likes, downloads, comments, unique_users) ==
    views + likes * 3 + downloads * 5 + comments * 4 + unique_users * 2

\* The $group and $addFields stages for one skill id
SkillUpdate(ev, s) ==
    LET views == TypeCount(ev, s, "skill_view")
        likes == TypeCount(ev, s, "skill_like")
        downloads == TypeCount(ev, s, "skill_download")
        comments == TypeCount(ev, s, "skill_comment")
        unique_users == {e.user_id : e \in SkillEvents(ev, s)}
    IN [views |-> views, likes |-> likes, downloads |-> downloads,
        comments |-> comments, unique_users |-> unique_users,
        engagement_score |->
            EngagementScore(views, likes, downloads, comments,
                            Cardinality(unique_users))]

\* The ids the pipeline returns a group for
SkillUpdateIds(ev) == {s \in Skills : SkillEvents(ev, s) # {}}

\* An update that writes the counters with $set instead of $inc; C23 does
\* not hold of it
ApplySkillUpdateOverwrite(sk, s, update) ==
    IF s \notin DOMAIN sk THEN sk
    ELSE [sk EXCEPT ![s] =
            [@ EXCEPT !.views_count = update.views,
                      !.likes_count = update.likes,
                      !.downloads_count = update.downloads,
                      !.comments_count = update.comments,
                      !.engagement_score = update.engagement_score,
                      !.last_engagement_update = now]]

\* update_one on shared_skills ($inc of the counters, $set of the score);
\* an id that is not in the collection matches nothing
ApplySkillUpdate(sk, s, update) ==
    IF s \notin DOMAIN sk THEN sk
    ELSE [sk EXCEPT ![s] =
            [@ EXCEPT !.views_count = @ + update.views,
                      !.likes_count = @ + update.likes,
                      !.downloads_count = @ + update.downloads,
                      !.comments_count = @ + update.comments,
                      !.engagement_score = update.engagement_score,
                      !.last_engagement_update = now]]

RECURSIVE SkillUpdateLoop(_, _)
SkillUpdateLoop(d, todo) ==
    IF todo = {} THEN d
    ELSE LET s == CHOOSE x \in todo : TRUE
             d1 == [d EXCEPT
                      !.skills = ApplySkillUpdate(@, s, SkillUpdate(d.events, s)),
                      !.cache = DeletePattern(@, "skill", s)]
         IN SkillUpdateLoop(d1, todo \ {s})

UpdateSkillEngagementScores(d) ==
    IF ~dbUp THEN d
    ELSE SkillUpdateLoop(d, SkillUpdateIds(d.events))

----------------------------------------------------------------------------
(* BatchProcessor._update_user_engagement_metrics *)

UserWindow == 24 * SecondsPerHour

UserEvents(ev, u) ==
    {e \in Docs(ev) : e.timestamp >= now - UserWindow /\ e.user_id = u}

\* The $group and $addFields stages for one user id
UserUpdate(ev, u) ==
    LET total_events == SumCopies(ev, UserEvents(ev, u))
        event_types == {e.event_type : e \in UserEvents(ev, u)}
    IN [total_events |-> total_events,
        event_types |-> event_types,
        last_activity |-> Max({e.timestamp : e \in UserEvents(ev, u)}),
        activity_score |-> total_events * Cardinality(event_types)]

UserUpdateIds(ev) == {u \in Users : UserEvents(ev, u) # {}}

ApplyUserUpdate(us, u, update) ==
    IF u \notin DOMAIN us THEN us
    ELSE [us EXCEPT ![u] =
            [@ EXCEPT !.daily_activity_score = update.activity_score,
                      !.last_activity = update.last_activity,
                      !.total_engagement_score = @ + update.activity_score]]

RECURSIVE UserUpdateLoop(_, _)
UserUpdateLoop(d, todo) ==
    IF todo = {} THEN d
    ELSE LET u == CHOOSE x \in todo : TRUE
             d1 == [d EXCEPT
                      !.users = ApplyUserUpdate(@, u, UserUpdate(d.events, u)),
                      !.cache = DeletePattern(@, "user", u)]
         IN UserUpdateLoop(d1, todo \ {u})

UpdateUserEngagementMetrics(d) ==
    IF ~dbUp THEN d
    ELSE UserUpdateLoop(d, UserUpdateIds(d.events))

----------------------------------------------------------------------------
(* BatchProcessor._update_leaderboards *)

LeaderboardLimit == 50

\* The follower pipeline: the users by followers_count, largest first, at
\* most 50 of them.  The order among equal counts is the store's.
RECURSIVE TopFollowers(_, _, _)
TopFollowers(us, left, limit) ==
    IF left = {} \/ limit = 0 THEN << >>
    ELSE LET u == CHOOSE x \in left :
                    \A y \in left : us[y].followers_count <= us[x].followers_count
         IN <<[username |-> u, followers_count |-> us[u].followers_count]>>
            \o TopFollowers(us, left \ {u}, limit - 1)

UpdateLeaderboards(d) ==
    IF ~dbUp THEN d
    ELSE [d EXCEPT !.cache =
            CacheSet(@, <<"leaderboard", "followers">>,
                     TopFollowers(d.users, DOMAIN d.users, LeaderboardLimit),
                     TRUE, MEDIUM_TTL)]

----------------------------------------------------------------------------
(* BatchProcessor._process_engagement_batch *)

\* A pass without the test of self.app; C26 does not hold of it
ProcessEngagementBatchAnyApp(d) ==
    UpdateLeaderboards(
        UpdateUserEngagementMetrics(
            UpdateSkillEngagementScores(d)))

\* The three steps each catch their own errors, so each runs whatever the
\* one before it did
ProcessEngagementBatch(d) ==
    IF app = NoApp THEN d
    ELSE UpdateLeaderboards(
            UpdateUserEngagementMetrics(
                UpdateSkillEngagementScores(d)))

\* Whether the pass logged an error
EngagementFailed == app # NoApp /\ ~dbUp

----------------------------------------------------------------------------
(* AnalyticsRepository.get_trending_content and                           *)
(* AnalyticsService.get_trending_content, for content_type "skill"        *)

TrendingDays == 1
TrendingLimit == 50

TrendingEvents(ev, s, days) ==
    {e \in Docs(ev) : /\ e.event_type \in TrendingEventTypes
                      /\ e.timestamp >= now - days * SecondsPerDay
                      /\ e.skill_id = s}

\* The $group and $addFields stages for one skill id
TrendingGroup(ev, s, days) ==
    LET total_interactions == SumCopies(ev, TrendingEvents(ev, s, days))
        unique_user_count ==
            Cardinality({e.user_id : e \in TrendingEvents(ev, s, days)})
    IN [skill_id |-> s,
        total_interactions |-> total_interactions,
        unique_user_count |-> unique_user_count,
        trending_score |-> total_interactions + unique_user_count * 2,
        latest_activity |->
            Max({e.timestamp : e \in TrendingEvents(ev, s, days)})]

\* One group for each skill_id that the matched events carry
TrendingGroups(ev, days) ==
    {TrendingGroup(ev, s, days) :
        s \in {x \in {e.skill_id : e \in Docs(ev)} :
                    TrendingEvents(ev, x, days) # {}}}

\* A $sort stage with trending_score ascending; C13 does not hold of it
SortedBeforeAscending(a, b) ==
    \/ a.trending_score < b.trending_score
    \/ /\ a.trending_score = b.trending_score
       /\ a.latest_activity >= b.latest_activity

\* The $sort stage: trending_score descending, then latest_activity
\* descending
SortedBefore(a, b) ==
    \/ a.trending_score > b.trending_score
    \/ /\ a.trending_score = b.trending_score
       /\ a.latest_activity >= b.latest_activity

RECURSIVE Orderings(_)
Orderings(S) ==
    IF S = {} THEN {<< >>}
    ELSE UNION {{<<x>> \o rest : rest \in Orderings(S \ {x})} : x \in S}

IsSorted(q) == \A i, j \in DOMAIN q : i < j => SortedBefore(q[i], q[j])

Prefix(q, limit) == SubSeq(q, 1, IF Len(q) < limit THEN Len(q) ELSE limit)

\* The orderings of S that are sorted, {o \in Orderings(S) : IsSorted(o)},
\* built from the front: a group may come first when it sorts before all
\* the others
RECURSIVE SortOrders(_)
SortOrders(S) ==
    IF S = {} THEN {<< >>}
    ELSE UNION {{<<x>> \o rest : rest \in SortOrders(S \ {x})} :
                    x \in {y \in S : \A z \in S : SortedBefore(y, z)}}

\* The repository's result: every order the $sort stage allows (groups
\* equal in both sort keys come in either order), cut by $limit
RepoTrendingContent(ev, days, limit) ==
    {Prefix(q, limit) : q \in SortOrders(TrendingGroups(ev, days))}

\* AnalyticsService._get_skill_data and the enrichment loop: an item whose
\* skill is not in shared_skills is dropped
RECURSIVE Enrich(_, _)
Enrich(items, sk) ==
    IF items = << >> THEN << >>
    ELSE LET item == Head(items)
         IN (IF item.skill_id \in DOMAIN sk
             THEN <<[skill_id |-> item.skill_id,
                     total_interactions |-> item.total_interactions,
                     unique_user_count |-> item.unique_user_count,
                     trending_score |-> item.trending_score,
                     latest_activity |-> item.latest_activity,
                     skill_info |->
                        [likes_count |-> sk[item.skill_id].likes_count]]>>
             ELSE << >>)
            \o Enrich(Tail(items), sk)

\* AnalyticsService.get_trending_content: the possible "trending_items";
\* any error is caught and gives the empty list
GetTrendingContent(d, days, limit) ==
    IF ~dbUp THEN {<< >>}
    ELSE {Enrich(q, d.skills) : q \in RepoTrendingContent(d.events, days, limit)}

----------------------------------------------------------------------------
(* BatchProcessor._update_trending_content *)

RECURSIVE TrendingScoreLoop(_, _)
TrendingScoreLoop(sk, items) ==
    IF items = << >> THEN sk
    ELSE LET item == Head(items)
         IN TrendingScoreLoop(
                [sk EXCEPT ![item.skill_id] =
                    [@ EXCEPT !.trending_score = item.trending_score,
                              !.trending_updated_at = now]],
                Tail(items))

\* The pass on one list of trending items
UpdateTrendingWith(d, items) ==
    [d EXCEPT !.cache = CacheTrendingSkills(@, items),
              !.skills = TrendingScoreLoop(@, items)]

\* The states one pass can leave
UpdateTrendingContent(d) ==
    IF app = NoApp THEN {d}
    ELSE {UpdateTrendingWith(d, items) :
            items \in GetTrendingContent(d, TrendingDays, TrendingLimit)}

\* The pass logs an error when the store does not answer (inside
\* AnalyticsService.get_trending_content)
TrendingFailed == app # NoApp /\ ~dbUp

----------------------------------------------------------------------------
(* BatchProcessor._perform_cache_maintenance *)

LowHitRate == 60

\* A pass that also warms at a hit rate of exactly 60; C17 does not hold
\* of it
PerformCacheMaintenanceAtMost(d) ==
    IF ~IsAvailable THEN d
    ELSE IF HitRate <= LowHitRate * 100
         THEN [d EXCEPT !.cache = WarmCache(@, "trending")]
         ELSE d

\* One whole pass: nothing without Redis; stats.get('hit_rate', 100) < 60
\* warms the trending cache
PerformCacheMaintenance(d) ==
    IF ~IsAvailable THEN d
    ELSE IF HitRate < LowHitRate * 100
         THEN [d EXCEPT !.cache = WarmCache(@, "trending")]
         ELSE d

----------------------------------------------------------------------------
(* BatchProcessor._aggregate_analytics_data *)

Today == now \div SecondsPerDay

DailyKey == <<"daily_analytics", ToString(Today)>>

DayEvents(ev) ==
    {e \in Docs(ev) : /\ e.timestamp >= Today * SecondsPerDay
                      /\ e.timestamp < (Today + 1) * SecondsPerDay}

\* The $group and $project stages: one row per event type of the day
DailyAggregation(ev) ==
    {[event_type |-> t,
      count |-> SumCopies(ev, {e \in DayEvents(ev) : e.event_type = t}),
      unique_users |->
        Cardinality({e.user_id : e \in {x \in DayEvents(ev) : x.event_type = t}})] :
        t \in {e.event_type : e \in DayEvents(ev)}}

\* A pass without the exists check; C16 does not hold of it
AggregateAnalyticsAlways(d) ==
    IF app = NoApp THEN d
    ELSE IF ~dbUp THEN d
    ELSE [d EXCEPT !.cache =
            CacheSet(@, DailyKey, DailyAggregation(d.events), TRUE, LONG_TTL)]

\* One whole pass: nothing without an app, nothing when today's entry
\* exists; a store that does not answer raises inside the try
AggregateAnalyticsData(d) ==
    IF app = NoApp THEN d
    ELSE IF CacheExists(d.cache, DailyKey) THEN d
    ELSE IF ~dbUp THEN d
    ELSE [d EXCEPT !.cache =
            CacheSet(@, DailyKey, DailyAggregation(d.events), TRUE, LONG_TTL)]

AnalyticsFailed ==
    app # NoApp /\ ~CacheExists(cache, DailyKey) /\ ~dbUp

----------------------------------------------------------------------------
(* The task loops: BatchProcessor._start_*_processor *)

ThreadNames ==
    <<"engagement_metrics", "trending_content", "notification_digest",
      "cache_maintenance", "analytics_aggregation">>

Names == {ThreadNames[i] : i \in DOMAIN ThreadNames}

\* time.sleep after a pass that returned
Interval(name) ==
    CASE name = "engagement_metrics" -> 300
      [] name = "trending_content" -> 900
      [] name = "notification_digest" -> 3600
      [] name = "cache_maintenance" -> 1800
      [] name = "analytics_aggregation" -> 600

\* time.sleep in the except branch of the loop
Backoff(name) ==
    CASE name = "engagement_metrics" -> 60
      [] name = "trending_content" -> 300
      [] name = "notification_digest" -> 600
      [] name = "cache_maintenance" -> 600
      [] name = "analytics_aggregation" -> 300

\* The states the function a loop calls can leave the store in
LoopTarget(name, d) ==
    CASE name = "engagement_metrics" -> {ProcessEngagementBatch(d)}
      [] name = "trending_content" -> UpdateTrendingContent(d)
      [] name = "notification_digest" -> {ProcessNotificationDigest(d)}
      [] name = "cache_maintenance" -> {PerformCacheMaintenance(d)}
      [] name = "analytics_aggregation" -> {AggregateAnalyticsData(d)}

\* Whether that function logged an error on the way (it catches every
\* Exception itself: lines 143, 344, 405, 427, 474)
LoggedError(name) ==
    CASE name = "engagement_metrics" -> EngagementFailed
      [] name = "trending_content" -> TrendingFailed
      [] name = "notification_digest" -> DigestFailed
      [] name = "cache_maintenance" -> FALSE
      [] name = "analytics_aggregation" -> AnalyticsFailed

\* Whether an exception leaves that function and reaches the loop's
\* except branch: each function wraps its whole body in try/except Exception
Raises(name) == FALSE

\* The sleep the loop body takes after the call
SleepAfter(name, raised) ==
    IF raised THEN Backoff(name) ELSE Interval(name)

\* A loop thread: where it is, how long its current sleep is, and whether
\* the pass it ran last logged an error
NewThread == [pc |-> "top", sleep |-> 0, logged_error |-> FALSE]

IsAlive(th) == th.pc # "dead"

\* A loop that never tests the flag (while True); C22 does not hold of it
LoopTopNeverEnds(th) ==
    [pc |-> "exec", sleep |-> 0, logged_error |-> th.logged_error]

\* A test of the flag the wrong way round (while not self.running): a loop
\* ends while the scheduler runs; C21 does not hold of it
LoopTopInverted(th) ==
    IF ~running THEN [pc |-> "exec", sleep |-> 0, logged_error |-> th.logged_error]
    ELSE [pc |-> "dead", sleep |-> 0, logged_error |-> th.logged_error]

\* while self.running: the test at the top of the loop
LoopTop(th) ==
    IF running THEN [pc |-> "exec", sleep |-> 0, logged_error |-> th.logged_error]
    ELSE [pc |-> "dead", sleep |-> 0, logged_error |-> th.logged_error]

\* LoopBody with the try around the while instead of inside it: a pass that
\* logs an error ends the loop
LoopBodyEndsOnError(th, name) ==
    IF LoggedError(name)
    THEN [pc |-> "dead", sleep |-> 0, logged_error |-> TRUE]
    ELSE [pc |-> "sleep", sleep |-> Interval(name), logged_error |-> FALSE]

\* The try/except body, up to the point where the thread sleeps
LoopBody(th, name) ==
    [pc |-> "sleep",
     sleep |-> SleepAfter(name, Raises(name)),
     logged_error |-> LoggedError(name) \/ Raises(name)]

\* The model follows the counters up to these bounds
Bounded(d) ==
    /\ \A s \in DOMAIN d.skills :
            /\ d.skills[s].views_count <= MaxCounter
            /\ d.skills[s].likes_count <= MaxCounter
            /\ d.skills[s].downloads_count <= MaxCounter
            /\ d.skills[s].comments_count <= MaxCounter
    /\ \A u \in DOMAIN d.users : d.users[u].total_engagement_score <= MaxScore
    /\ SumCopies(d.notifications,
                 {n \in Docs(d.notifications) :
                    n.notification_type = "daily_digest"}) <= MaxDigests

SetData(d) ==
    /\ Bounded(d)
    /\ events' = d.events
    /\ skills' = d.skills
    /\ users' = d.users
    /\ notifications' = d.notifications
    /\ cache' = d.cache

\* A registered loop thread reaches the top of its loop, at its start or as
\* its sleep ends, and tests self.running
LoopCheck(name) ==
    /\ name \in DOMAIN batch_threads
    /\ batch_threads[name].pc \in {"top", "sleep"}
    /\ batch_threads' = [batch_threads EXCEPT ![name] = LoopTop(@)]
    /\ UNCHANGED <<running, app, orphans, stopper, lastCall, result,
                   envVars, dataVars, runs>>

\* A registered loop thread runs its pass and goes to sleep
LoopExecute(name) ==
    /\ name \in DOMAIN batch_threads
    /\ batch_threads[name].pc = "exec"
    /\ \E d \in LoopTarget(name, Data) : SetData(d)
    /\ batch_threads' = [batch_threads EXCEPT ![name] = LoopBody(@, name)]
    /\ UNCHANGED <<running, app, orphans, stopper, lastCall, result,
                   envVars, runs>>

\* The same two steps for a loop thread the registry no longer holds; one
\* that returns is gone
OrphanCheck(o) ==
    /\ BagIn(o, orphans)
    /\ o.thread.pc \in {"top", "sleep"}
    /\ orphans' = IF running
                  THEN Replace(orphans, o, [o EXCEPT !.thread = LoopTop(@)])
                  ELSE Remove(orphans, o)
    /\ UNCHANGED <<running, app, batch_threads, stopper, lastCall, result,
                   envVars, dataVars, runs>>

OrphanExecute(o) ==
    /\ BagIn(o, orphans)
    /\ o.thread.pc = "exec"
    /\ \E d \in LoopTarget(o.name, Data) : SetData(d)
    /\ orphans' = Replace(orphans, o, [o EXCEPT !.thread = LoopBody(@, o.name)])
    /\ UNCHANGED <<running, app, batch_threads, stopper, lastCall, result,
                   envVars, runs>>

----------------------------------------------------------------------------
(* BatchProcessor.start_batch_processing *)

\* The number of loop threads that have not returned
LiveThreads ==
    Cardinality({n \in DOMAIN batch_threads : IsAlive(batch_threads[n])})
    + BagCardinality(orphans)

\* The threads the registry held and that are still alive are referenced by
\* nothing once _start_*_processor has stored the new Thread under the name
Displaced ==
    LET live == {n \in DOMAIN batch_threads : IsAlive(batch_threads[n])}
    IN SetToBag({[name |-> n, thread |-> batch_threads[n]] : n \in live})

StartBatchProcessing(a) ==
    /\ stopper = 0
    /\ IF running
       THEN /\ lastCall' = "start_rejected"
            /\ UNCHANGED <<running, app, batch_threads, orphans>>
       ELSE /\ LiveThreads <= MaxOrphans
            /\ app' = a
            /\ running' = TRUE
            /\ orphans' = orphans (+) Displaced
            /\ batch_threads' = [n \in Names |-> NewThread]
            /\ lastCall' = "start"
    /\ UNCHANGED <<stopper, result, envVars, dataVars, runs>>

----------------------------------------------------------------------------
(* BatchProcessor.stop_batch_processing *)

JoinTimeout == 10

\* self.running = False; the walk over batch_threads.items() begins
StopBegin ==
    /\ stopper = 0
    /\ running' = FALSE
    /\ stopper' = 1
    /\ lastCall' = "stop_begun"
    /\ UNCHANGED <<app, batch_threads, orphans, result, envVars, dataVars, runs>>

\* thread.join(timeout=10) gives up on a thread that is inside a pass or
\* inside a sleep longer than the timeout
JoinTimesOut(th) ==
    \/ th.pc = "exec"
    \/ th.pc = "sleep" /\ th.sleep > JoinTimeout

\* The walk ends and the call returns: every registered thread has either
\* returned (is_alive() is false, or its join came back) or outlasted the
\* timeout of its join
StopReturn ==
    /\ stopper = 1
    /\ \A n \in DOMAIN batch_threads :
            ~IsAlive(batch_threads[n]) \/ JoinTimesOut(batch_threads[n])
    /\ stopper' = 0
    /\ lastCall' = "stop"
    /\ UNCHANGED <<running, app, batch_threads, orphans, result,
                   envVars, dataVars, runs>>

----------------------------------------------------------------------------
(* BatchProcessor.get_batch_status *)

GetBatchStatus ==
    [running |-> running,
     active_threads |-> [n \in DOMAIN batch_threads |-> IsAlive(batch_threads[n])]]

----------------------------------------------------------------------------
(* BatchProcessor.process_immediate_batch *)

BatchTypes ==
    {"engagement", "trending", "notifications", "cache_maintenance",
     "analytics", "unknown_task", "notification_digest"}

KnownBatchTypes ==
    {"engagement", "trending", "notifications", "cache_maintenance", "analytics"}

\* A chain whose trending branch calls the engagement pass; C4 does not
\* hold of it
ImmediateTargetSwapped(batch_type, d) ==
    IF batch_type = "engagement" THEN {ProcessEngagementBatch(d)}
    ELSE IF batch_type = "trending" THEN {ProcessEngagementBatch(d)}
    ELSE IF batch_type = "notifications" THEN {ProcessNotificationDigest(d)}
    ELSE IF batch_type = "cache_maintenance" THEN {PerformCacheMaintenance(d)}
    ELSE IF batch_type = "analytics" THEN {AggregateAnalyticsData(d)}
    ELSE {d}

\* The if/elif chain: the states the selected function can leave
ImmediateTarget(batch_type, d) ==
    IF batch_type = "engagement" THEN {ProcessEngagementBatch(d)}
    ELSE IF batch_type = "trending" THEN UpdateTrendingContent(d)
    ELSE IF batch_type = "notifications" THEN {ProcessNotificationDigest(d)}
    ELSE IF batch_type = "cache_maintenance" THEN {PerformCacheMaintenance(d)}
    ELSE IF batch_type = "analytics" THEN {AggregateAnalyticsData(d)}
    ELSE {d}

\* A result that reports a failure while the store does not answer; C27
\* does not hold of it
ImmediateResultFailsOffline(batch_type) ==
    [success |-> batch_type \in KnownBatchTypes /\ dbUp,
     message |-> "Processed " \o batch_type,
     processed_items |-> 0]

\* A result that reports success for every name; C3 does not hold of it
ImmediateResultAlwaysOk(batch_type) ==
    [success |-> TRUE, message |-> "Processed " \o batch_type,
     processed_items |-> 0]

\* The dict the call returns
ImmediateResult(batch_type) ==
    IF batch_type = "engagement"
    THEN [success |-> TRUE, message |-> "Engagement metrics processed",
          processed_items |-> 0]
    ELSE IF batch_type = "trending"
    THEN [success |-> TRUE, message |-> "Trending content updated",
          processed_items |-> 0]
    ELSE IF batch_type = "notifications"
    THEN [success |-> TRUE, message |-> "Notification digests processed",
          processed_items |-> 0]
    ELSE IF batch_type = "cache_maintenance"
    THEN [success |-> TRUE, message |-> "Cache maintenance completed",
          processed_items |-> 0]
    ELSE IF batch_type = "analytics"
    THEN [success |-> TRUE, message |-> "Analytics data aggregated",
          processed_items |-> 0]
    ELSE [success |-> FALSE, message |-> "Unknown batch type: " \o batch_type,
          processed_items |-> 0]

NoResult == [success |-> FALSE, message |-> "", processed_items |-> 0]

ProcessImmediateBatch(batch_type) ==
    /\ \E d \in ImmediateTarget(batch_type, Data) : SetData(d)
    /\ result' = ImmediateResult(batch_type)
    /\ UNCHANGED <<schedVars, envVars, runs>>

----------------------------------------------------------------------------
(* BatchProcessor.cleanup_old_data *)

\* cutoff_date = datetime.utcnow() - timedelta(days=days_old)
CutoffDate(days_old) == now - days_old * SecondsPerDay

\* The filter {"timestamp": {"$lt": cutoff_date}}
OldEvents(ev, cutoff_date) ==
    {e \in Docs(ev) : e.timestamp < cutoff_date}

\* A filter that leaves "read" out; C18 does not hold of it
OldNotificationsAnyRead(ns, cutoff_date) ==
    {n \in Docs(ns) : n.created_at < cutoff_date}

\* The filter {"created_at": {"$lt": cutoff_date}, "read": True}
OldNotifications(ns, cutoff_date) ==
    {n \in Docs(ns) : n.created_at < cutoff_date /\ n.read = TRUE}

\* delete_many: every copy of every matching document goes
DeleteMany(B, matching) == [x \in Docs(B) \ matching |-> B[x]]

\* The two delete_many calls; when the store does not answer the first one
\* raises, the except branch logs and nothing is deleted
CleanupOldData(days_old) ==
    /\ IF dbUp
       THEN /\ events' = DeleteMany(events,
                                    OldEvents(events, CutoffDate(days_old)))
            /\ notifications' =
                 DeleteMany(notifications,
                            OldNotifications(notifications, CutoffDate(days_old)))
       ELSE UNCHANGED <<events, notifications>>
    /\ lastCall' = "cleanup"
    /\ UNCHANGED <<running, app, batch_threads, orphans, stopper, result,
                   envVars, skills, users, cache, runs>>

----------------------------------------------------------------------------
(* The environment *)

\* The document store stops or resumes answering
StoreOutage ==
    /\ dbUp' = ~dbUp
    /\ UNCHANGED <<schedVars, result, now, cacheUp, cacheStats, dataVars, runs>>

\* Redis stops or resumes answering
CacheOutage ==
    /\ cacheUp' = ~cacheUp
    /\ UNCHANGED <<schedVars, result, now, dbUp, cacheStats, dataVars, runs>>

----------------------------------------------------------------------------
(* Initial states *)

StartOfTime == 2 * SecondsPerDay

\* Time passes: as long as the engagement loop sleeps between two passes
Tick ==
    /\ now < StartOfTime + MaxTicks * Interval("engagement_metrics")
    /\ now' = now + Interval("engagement_metrics")
    /\ UNCHANGED <<schedVars, result, dbUp, cacheUp, cacheStats, dataVars, runs>>

\* AnalyticsService.track_event: one more event in the store, stamped with
\* the time of the call; the call returns False when the store does not
\* answer.  The result of an earlier run_now is no longer the latest one.
TrackEvent(event_type, user_id, skill_id) ==
    /\ BagCardinality(events) < MaxEvents
    /\ events' = IF dbUp
                 THEN Insert(events, [skill_id |-> skill_id, user_id |-> user_id,
                                      event_type |-> event_type, timestamp |-> now])
                 ELSE events
    /\ result' = [success |-> FALSE, message |-> "", processed_items |-> 0]
    /\ UNCHANGED <<schedVars, envVars, skills, users, notifications, cache, runs>>

NewSkill ==
    [views_count |-> 0, likes_count |-> 0, downloads_count |-> 0,
     comments_count |-> 0, engagement_score |-> 0,
     last_engagement_update |-> 0, trending_score |-> 0,
     trending_updated_at |-> 0]

NewUser ==
    [followers_count |-> 0, daily_activity_score |-> 0, last_activity |-> 0,
     total_engagement_score |-> 0]

EmptyCache == [k \in {} |-> 0]

\* BatchProcessor.__init__
InitScheduler ==
    /\ running = FALSE
    /\ app = NoApp
    /\ batch_threads = [n \in {} |-> NewThread]
    /\ orphans = EmptyBag
    /\ stopper = 0
    /\ lastCall = "none"
    /\ result = NoResult
    /\ runs = [c \in {} |-> 0]

Event(s, u, type, t) ==
    [skill_id |-> s, user_id |-> u, event_type |-> type, timestamp |-> t]

Notification(u, type, read, t) ==
    [user_id |-> u, notification_type |-> type, read |-> read,
     created_at |-> t, unread_count |-> 0]

\* n copies of one document
Copies(doc, n) == IF n = 0 THEN EmptyBag ELSE [x \in {doc} |-> n]

\* A store with no event and five unread notifications for u1, and a cache
\* with the given keyspace hits and misses
InitSmallStore(hits, misses) ==
    /\ now = StartOfTime
    /\ dbUp = TRUE
    /\ cacheUp = TRUE
    /\ cacheStats = [hits |-> hits, misses |-> misses]
    /\ events = EmptyBag
    /\ skills = [s \in Skills |-> NewSkill]
    /\ users = [u \in Users |-> NewUser]
    /\ notifications =
         Copies(Notification("u1", "like_received", FALSE, StartOfTime),
                DigestThreshold)
    /\ cache = EmptyCache

----------------------------------------------------------------------------
(* Spec: the scheduler driven through the control surface of             *)
(* backend/api/v1/batch.py, whose start endpoint passes no app            *)

Init == InitScheduler /\ InitSmallStore(3, 1)

\* POST /start
StartEndpoint == StartBatchProcessing(NoApp)

LoopChecks == \E n \in Names : LoopCheck(n)
LoopExecutes == \E n \in Names : LoopExecute(n)
OrphanChecks == \E o \in BagToSet(orphans) : OrphanCheck(o)
OrphanExecutes == \E o \in BagToSet(orphans) : OrphanExecute(o)

Next ==
    \/ StartEndpoint
    \/ StopBegin
    \/ StopReturn
    \/ LoopChecks
    \/ LoopExecutes
    \/ OrphanChecks
    \/ OrphanExecutes

Spec == Init /\ [][Next]_vars

----------------------------------------------------------------------------
(* SpecRun: a scheduler started with an app, its five loops and the       *)
(* on-demand calls working on the store while the store comes and goes    *)

StartWithApp == StartBatchProcessing(TheApp)

RunNow == \E b \in BatchTypes : ProcessImmediateBatch(b)

NextRun ==
    \/ StartWithApp
    \/ LoopChecks
    \/ LoopExecutes
    \/ StoreOutage

InitRun == InitScheduler /\ InitSmallStore(1, 1)

SpecRun == InitRun /\ [][NextRun]_vars

----------------------------------------------------------------------------
(* Schedulers that were started with an app before the behaviours below   *)
(* begin: one whose five loops have each run a pass and sleep, and one    *)
(* that was stopped afterwards and whose loops have returned              *)

SleepingScheduler ==
    /\ running = TRUE
    /\ app = TheApp
    /\ batch_threads =
         [n \in Names |->
            [pc |-> "sleep", sleep |-> Interval(n), logged_error |-> FALSE]]
    /\ orphans = EmptyBag
    /\ stopper = 0
    /\ lastCall = "start"
    /\ result = NoResult
    /\ runs = [c \in {} |-> 0]

StoppedScheduler ==
    /\ running = FALSE
    /\ app = TheApp
    /\ batch_threads =
         [n \in Names |-> [pc |-> "dead", sleep |-> 0, logged_error |-> FALSE]]
    /\ orphans = EmptyBag
    /\ stopper = 0
    /\ lastCall = "stop"
    /\ result = NoResult
    /\ runs = [c \in {} |-> 0]

----------------------------------------------------------------------------
(* SpecOnDemand: process_immediate_batch called with every batch type,    *)
(* on a scheduler in each of its three conditions, as store and cache     *)
(* come and go                                                            *)

InitOnDemand ==
    /\ InitScheduler \/ SleepingScheduler \/ StoppedScheduler
    /\ now = StartOfTime
    /\ dbUp = TRUE
    /\ cacheUp = TRUE
    /\ cacheStats \in {[hits |-> 1, misses |-> 1], [hits |-> 3, misses |-> 1]}
    /\ events = Copies(Event("s1", "u1", "skill_view", StartOfTime), 1)
    /\ skills = [s \in Skills |-> NewSkill]
    /\ users = [u \in Users |-> NewUser]
    /\ notifications =
         Copies(Notification("u1", "like_received", FALSE, StartOfTime),
                DigestThreshold)
    /\ cache = EmptyCache

NextOnDemand ==
    \/ RunNow
    \/ StoreOutage
    \/ CacheOutage

SpecOnDemand == InitOnDemand /\ [][NextOnDemand]_vars

----------------------------------------------------------------------------
(* SpecDigest: digest passes on demand, one after the other, over varied  *)
(* notifications                                                          *)

\* The notifications of one user: k unread recent ones of a digest type and
\* at most one other document: a read one, one older than the window, or
\* one of another type
Distractors(u) ==
    {EmptyBag,
     Copies(Notification(u, "like_received", TRUE, StartOfTime), 1),
     Copies(Notification(u, "like_received", FALSE,
                         StartOfTime - DigestWindow - SecondsPerHour), 1),
     Copies(Notification(u, "skill_rated", FALSE, StartOfTime), 1)}

Unread(u, k) ==
    Copies(Notification(u, "comment_received", FALSE, StartOfTime), k)

InitNotifications ==
    {(Unread("u1", k1) (+) x) (+) Unread("u2", k2) :
        k1 \in 0..MaxUnread, x \in Distractors("u1"),
        k2 \in {0, DigestThreshold}}

InitDigest ==
    /\ InitScheduler \/ SleepingScheduler
    /\ now = StartOfTime
    /\ dbUp = TRUE
    /\ cacheUp = TRUE
    /\ cacheStats = [hits |-> 3, misses |-> 1]
    /\ events = EmptyBag
    /\ skills = [s \in Skills |-> NewSkill]
    /\ users = [u \in Users |-> NewUser]
    /\ notifications \in InitNotifications
    /\ cache = EmptyCache

RunDigestNow == ProcessImmediateBatch("notifications")

NextDigest ==
    \/ RunDigestNow
    \/ StoreOutage
    \/ CacheOutage

SpecDigest == InitDigest /\ [][NextDigest]_vars

----------------------------------------------------------------------------
(* SpecEngage: engagement passes on demand over varied events *)

EventKinds ==
    {Event(s, u, type, t) :
        s \in Skills, u \in Users, type \in TrendingEventTypes,
        t \in {StartOfTime, StartOfTime - 2 * SecondsPerHour}}

RECURSIVE EventBags(_)
EventBags(n) ==
    IF n = 0 THEN {EmptyBag}
    ELSE LET smaller == EventBags(n - 1)
         IN smaller \cup {Insert(B, e) : B \in smaller, e \in EventKinds}

InitEngage ==
    /\ InitScheduler \/ SleepingScheduler
    /\ now = StartOfTime
    /\ dbUp = TRUE
    /\ cacheUp = TRUE
    /\ cacheStats = [hits |-> 3, misses |-> 1]
    /\ events \in EventBags(MaxEvents)
    /\ skills = [s \in Skills |-> NewSkill]
    /\ users = [u \in Users |-> NewUser]
    /\ notifications = EmptyBag
    /\ cache = EmptyCache

RunEngagementNow == ProcessImmediateBatch("engagement")

NextEngage ==
    \/ RunEngagementNow
    \/ StoreOutage

SpecEngage == InitEngage /\ [][NextEngage]_vars

----------------------------------------------------------------------------
(* SpecEngageRuns: engagement passes one interval apart, as the scheduled *)
(* loop makes them, and on demand in between                              *)

InitEngageRuns ==
    /\ SleepingScheduler
    /\ now = StartOfTime
    /\ dbUp = TRUE
    /\ cacheUp = TRUE
    /\ cacheStats = [hits |-> 3, misses |-> 1]
    /\ events \in EventBags(1)
    /\ skills = [s \in Skills |-> NewSkill]
    /\ users = [u \in Users |-> NewUser]
    /\ notifications = EmptyBag
    /\ cache = EmptyCache

NextEngageRuns ==
    \/ RunEngagementNow
    \/ Tick

SpecEngageRuns == InitEngageRuns /\ [][NextEngageRuns]_vars

----------------------------------------------------------------------------
(* SpecTrend: trending passes on demand over varied events *)

InitTrend ==
    /\ InitScheduler \/ SleepingScheduler
    /\ now = StartOfTime
    /\ dbUp = TRUE
    /\ cacheUp = TRUE
    /\ cacheStats = [hits |-> 3, misses |-> 1]
    /\ events \in EventBags(MaxEvents)
    /\ skills = [s \in Skills |-> NewSkill]
    /\ users = [u \in Users |-> NewUser]
    /\ notifications = EmptyBag
    /\ cache = EmptyCache

RunTrendingNow == ProcessImmediateBatch("trending")

NextTrend ==
    \/ RunTrendingNow
    \/ StoreOutage

SpecTrend == InitTrend /\ [][NextTrend]_vars

----------------------------------------------------------------------------
(* SpecTrendMany: trending passes over one more skill than the list may   *)
(* hold, so that $limit cuts the sorted groups                            *)

SkillNo(i) == "s" \o ToString(i)

ManySkills == {SkillNo(i) : i \in 1..(TrendingLimit + 1)}

\* One view for each skill, each at its own second, but for the last two
\* skills, whose views share a second: they are equal in both sort keys
BaseEvents ==
    SetToBag({Event(SkillNo(i), "u1", "skill_view",
                    StartOfTime - (IF i > TrendingLimit THEN TrendingLimit ELSE i)) :
                i \in 1..(TrendingLimit + 1)})

\* Nothing more, or one more event for skill a that leaves its latest
\* activity as it is: of the same user, or of another user
ExtraEvents(a) ==
    {EmptyBag,
     Copies(Event(a, "u1", "skill_share", StartOfTime - SecondsPerHour), 1),
     Copies(Event(a, "u2", "skill_like", StartOfTime - SecondsPerHour), 1)}

InitTrendMany ==
    /\ SleepingScheduler
    /\ now = StartOfTime
    /\ dbUp = TRUE
    /\ cacheUp = TRUE
    /\ cacheStats = [hits |-> 3, misses |-> 1]
    /\ \E a \in ManySkills : \E x \in ExtraEvents(a) : events = BaseEvents (+) x
    /\ skills = [s \in ManySkills |-> NewSkill]
    /\ users = [u \in Users |-> NewUser]
    /\ notifications = EmptyBag
    /\ cache = EmptyCache

NextTrendMany ==
    \/ RunTrendingNow
    \/ StoreOutage

SpecTrendMany == InitTrendMany /\ [][NextTrendMany]_vars

----------------------------------------------------------------------------
(* SpecAnalytics: analytics passes on demand while events come in *)

InitAnalytics ==
    /\ InitScheduler \/ SleepingScheduler
    /\ now = StartOfTime
    /\ dbUp = TRUE
    /\ cacheUp = TRUE
    /\ cacheStats = [hits |-> 3, misses |-> 1]
    /\ events = EmptyBag
    /\ skills = [s \in Skills |-> NewSkill]
    /\ users = [u \in Users |-> NewUser]
    /\ notifications = EmptyBag
    /\ cache = EmptyCache

RunAnalyticsNow == ProcessImmediateBatch("analytics")

TrackEvents ==
    \E type \in {"skill_view", "skill_like"} : \E u \in Users :
        TrackEvent(type, u, "s1")

NextAnalytics ==
    \/ RunAnalyticsNow
    \/ TrackEvents
    \/ StoreOutage
    \/ CacheOutage

SpecAnalytics == InitAnalytics /\ [][NextAnalytics]_vars

----------------------------------------------------------------------------
(* SpecMaintenance: cache-maintenance passes on demand at several hit     *)
(* rates, between trending passes, as time passes and Redis comes and goes *)

\* keyspace_hits and keyspace_misses: no request yet, 50%, exactly 60%, 75%,
\* and two rates that round to 60.00 and to 59.99
StatsSamples ==
    {[hits |-> 0, misses |-> 0], [hits |-> 1, misses |-> 1],
     [hits |-> 3, misses |-> 2], [hits |-> 3, misses |-> 1],
     [hits |-> 59996, misses |-> 40004], [hits |-> 59994, misses |-> 40006]}

InitMaintenance ==
    /\ InitScheduler \/ SleepingScheduler
    /\ now = StartOfTime
    /\ dbUp = TRUE
    /\ cacheUp = TRUE
    /\ cacheStats \in StatsSamples
    /\ events = Copies(Event("s1", "u1", "skill_view", StartOfTime), 1)
    /\ skills = [s \in Skills |-> NewSkill]
    /\ users = [u \in Users |-> NewUser]
    /\ notifications = EmptyBag
    /\ cache = EmptyCache

RunMaintenanceNow == ProcessImmediateBatch("cache_maintenance")

NextMaintenance ==
    \/ RunMaintenanceNow
    \/ RunTrendingNow
    \/ CacheOutage
    \/ Tick

SpecMaintenance == InitMaintenance /\ [][NextMaintenance]_vars

----------------------------------------------------------------------------
(* SpecDigestConc: digest passes that overlap.  The scheduled loop and an *)
(* on-demand call each run _process_notification_digest in their own      *)
(* thread; a pass is a sequence of steps: the aggregation, and for each   *)
(* candidate the exists check, the creation and the marker write.         *)
(* runs[c] is the position of the pass that context c is in.              *)

Contexts == {"loop", "run_now"}

\* The pass of context c has no candidate left and returns
Returned(c) == [x \in DOMAIN runs \ {c} |-> runs[x]]

\* After candidate u: on to the next one, or out of the for loop
NextCandidate(c, u) ==
    IF runs[c].todo = {u} THEN Returned(c)
    ELSE [runs EXCEPT ![c] = [@ EXCEPT !.pc = "check", !.todo = @ \ {u},
                                       !.cur = "none"]]

\* Lines 350-375: the guard on the app and the aggregation
DigestBegin(c) ==
    /\ c \notin DOMAIN runs
    /\ app # NoApp
    /\ dbUp
    /\ LET cands == DigestCandidates(notifications)
       IN /\ cands # {}
          /\ runs' =
               [x \in DOMAIN runs \cup {c} |->
                  IF x = c
                  THEN [pc |-> "check", todo |-> cands, cur |-> "none",
                        counts |->
                          [u \in cands |-> DigestUnreadCount(notifications, u)]]
                  ELSE runs[x]]
    /\ UNCHANGED <<schedVars, result, envVars, dataVars>>

\* Lines 377-383: the next candidate and the exists check
DigestCheck(c) ==
    /\ c \in DOMAIN runs
    /\ runs[c].pc = "check"
    /\ \E u \in runs[c].todo :
         runs' = IF CacheExists(cache, DigestKey(u))
                 THEN NextCandidate(c, u)
                 ELSE [runs EXCEPT ![c] = [@ EXCEPT !.pc = "create", !.cur = u]]
    /\ UNCHANGED <<schedVars, result, envVars, dataVars>>

\* Lines 386-398: the digest notification is created
DigestCreate(c) ==
    /\ c \in DOMAIN runs
    /\ runs[c].pc = "create"
    /\ dbUp
    /\ notifications' =
         CreateNotification(notifications, runs[c].cur, "daily_digest",
                            runs[c].counts[runs[c].cur])
    /\ Bounded([Data EXCEPT !.notifications = notifications'])
    /\ runs' = [runs EXCEPT ![c] = [@ EXCEPT !.pc = "mark"]]
    /\ UNCHANGED <<schedVars, result, envVars, events, skills, users, cache>>

\* Line 401: the marker is written
DigestMark(c) ==
    /\ c \in DOMAIN runs
    /\ runs[c].pc = "mark"
    /\ cache' = CacheSet(cache, DigestKey(runs[c].cur), TRUE, FALSE,
                         DigestMarkerTTL)
    /\ runs' = NextCandidate(c, runs[c].cur)
    /\ UNCHANGED <<schedVars, result, envVars, events, skills, users,
                   notifications>>

\* A failed creation after which the marker is written all the same (the
\* write in a finally clause); C30 does not hold of it
DigestCreateRaisesThenMarks(c) ==
    /\ c \in DOMAIN runs
    /\ runs[c].pc = "create"
    /\ ~dbUp
    /\ cache' = CacheSet(cache, DigestKey(runs[c].cur), TRUE, FALSE,
                         DigestMarkerTTL)
    /\ runs' = Returned(c)
    /\ UNCHANGED <<schedVars, result, envVars, events, skills, users,
                   notifications>>

\* Lines 388-398 and 405-406: the creation raises (the store does not
\* answer); the except branch around the whole pass logs and the pass
\* returns, whatever candidates are left
DigestCreateRaises(c) ==
    /\ c \in DOMAIN runs
    /\ runs[c].pc = "create"
    /\ ~dbUp
    /\ runs' = Returned(c)
    /\ UNCHANGED <<schedVars, result, envVars, dataVars>>

InitDigestConc ==
    /\ SleepingScheduler
    /\ now = StartOfTime
    /\ dbUp = TRUE
    /\ cacheUp = TRUE
    /\ cacheStats = [hits |-> 3, misses |-> 1]
    /\ events = EmptyBag
    /\ skills = [s \in Skills |-> NewSkill]
    /\ users = [u \in Users |-> NewUser]
    /\ notifications =
         Unread("u1", DigestThreshold) (+) Unread("u2", DigestThreshold)
    /\ cache = EmptyCache

DigestBegins == \E c \in Contexts : DigestBegin(c)
DigestChecks == \E c \in Contexts : DigestCheck(c)
DigestCreates == \E c \in Contexts : DigestCreate(c)
DigestMarks == \E c \in Contexts : DigestMark(c)

NextDigestConc ==
    \/ DigestBegins
    \/ DigestChecks
    \/ DigestCreates
    \/ DigestMarks

SpecDigestConc == InitDigestConc /\ [][NextDigestConc]_vars

----------------------------------------------------------------------------
(* SpecDigestFaults: digest passes, step by step, on a store that stops   *)
(* and resumes answering while a pass is under way                        *)

DigestCreateFailures == \E c \in Contexts : DigestCreateRaises(c)

NextDigestFaults ==
    \/ DigestBegins
    \/ DigestChecks
    \/ DigestCreates
    \/ DigestCreateFailures
    \/ DigestMarks
    \/ StoreOutage

SpecDigestFaults == InitDigestConc /\ [][NextDigestFaults]_vars

----------------------------------------------------------------------------
(* Properties of the scheduler *)

\* The loop threads of a task that have not returned: the registered one
\* and those the registry no longer holds
LiveLoops(name) ==
    (IF name \in DOMAIN batch_threads /\ IsAlive(batch_threads[name])
     THEN 1 ELSE 0)
    + SumCopies(orphans, {o \in Docs(orphans) : o.name = name})

\* C1: after two successive start() calls (the second one found the
\* scheduler running and did nothing) every task has exactly one live loop.
C1_OneLoopPerTaskAfterTwoStarts ==
    lastCall = "start_rejected" => \A n \in Names : LiveLoops(n) = 1

\* C2: once stop() has returned, status() reports running = false and no
\* task alive.
C2_StoppedMeansNoneAlive ==
    lastCall = "stop" =>
        /\ GetBatchStatus.running = FALSE
        /\ \A n \in DOMAIN GetBatchStatus.active_threads :
                GetBatchStatus.active_threads[n] = FALSE

\* C5: a pass that fails inside a task's function ends no loop, neither its
\* own nor another task's, and leaves the running flag alone; the loop that
\* failed goes on to its next iteration when its sleep ends.
C5_FailuresStayInside ==
    [][\A n \in Names :
        /\ (LoopExecute(n) /\ LoggedError(n)) =>
              /\ running' = running
              /\ \A m \in Names : IsAlive(batch_threads'[m])
              /\ \A m \in Names \ {n} : batch_threads'[m] = batch_threads[m]
        /\ (LoopCheck(n) /\ running /\ batch_threads[n].logged_error) =>
              batch_threads'[n].pc = "exec"]_vars

\* A loop is in its next pass after a pass that failed, beside a loop whose
\* pass succeeded
C5_Witness ==
    /\ running
    /\ \E n \in DOMAIN batch_threads :
            batch_threads[n].pc = "exec" /\ batch_threads[n].logged_error
    /\ \E m \in DOMAIN batch_threads :
            batch_threads[m].pc = "sleep" /\ ~batch_threads[m].logged_error

\* C6: the sleep after a pass that failed is the task's error backoff, the
\* sleep after a pass that succeeded its normal interval.
C6_BackoffAfterFailure ==
    \A n \in DOMAIN batch_threads :
        batch_threads[n].pc = "sleep" =>
            batch_threads[n].sleep =
                IF batch_threads[n].logged_error THEN Backoff(n) ELSE Interval(n)

----------------------------------------------------------------------------
(* Properties of run_now *)

\* C3: run_now with a name that is none of the five returns success = false
\* and processed_items = 0 and leaves the scheduler, the store and the cache
\* as they were.
C3_UnknownTaskChangesNothing ==
    [][\A b \in BatchTypes \ KnownBatchTypes :
        ProcessImmediateBatch(b) =>
            /\ result'.success = FALSE
            /\ result'.processed_items = 0
            /\ UNCHANGED <<schedVars, dataVars>>]_vars

\* run_now("unknown_task") has returned, on a store that earlier runs have
\* written to
C3_Witness ==
    /\ result = [success |-> FALSE,
                 message |-> "Unknown batch type: unknown_task",
                 processed_items |-> 0]
    /\ cache # EmptyCache

\* The loop that runs the same task as run_now(b)
LoopOf(b) ==
    CASE b = "engagement" -> "engagement_metrics"
      [] b = "trending" -> "trending_content"
      [] b = "notifications" -> "notification_digest"
      [] b = "cache_maintenance" -> "cache_maintenance"
      [] b = "analytics" -> "analytics_aggregation"

\* C4: run_now(task) can leave the store, the counters and the cache in
\* exactly the states one iteration of the task's loop can leave them in from
\* the same state, and it leaves the running flag and the registry alone.
C4_RunNowIsOneIteration ==
    [][\A b \in KnownBatchTypes :
        ProcessImmediateBatch(b) =>
            /\ UNCHANGED <<running, batch_threads, orphans>>
            /\ ImmediateTarget(b, Data) = LoopTarget(LoopOf(b), Data)
            /\ \E d \in LoopTarget(LoopOf(b), Data) :
                    dataVars' = <<d.events, d.skills, d.users, d.notifications,
                                  d.cache>>]_vars

\* run_now("trending") has returned on a running scheduler and has written
\* the trending list
C4_Witness ==
    /\ running
    /\ result.success
    /\ result.message = "Trending content updated"
    /\ <<"trending", "skills">> \in DOMAIN cache

----------------------------------------------------------------------------
(* Properties of the digest *)

DigestsOf(ns, u) ==
    SumCopies(ns, {n \in Docs(ns) :
                     n.notification_type = "daily_digest" /\ n.user_id = u})

\* C7: with the app held and store and cache answering, a digest run creates
\* exactly one digest for a user with at least 5 qualifying unread
\* notifications and no marker, and sets the marker for 86400 seconds; a run
\* that finds the marker creates no digest for that user.
C7_OneDigestThenNone ==
    [][\A u \in Users :
        (RunDigestNow /\ app # NoApp /\ dbUp /\ cacheUp) =>
            /\ (DigestUnreadCount(notifications, u) >= 5
                    /\ ~Live(cache, DigestKey(u))) =>
                  /\ DigestsOf(notifications', u) = DigestsOf(notifications, u) + 1
                  /\ Live(cache', DigestKey(u))
                  /\ cache'[DigestKey(u)].expires = now + 86400
            /\ Live(cache, DigestKey(u)) =>
                  DigestsOf(notifications', u) = DigestsOf(notifications, u)]_vars

\* A run has created the one digest of u1 and set the marker
C7_Witness ==
    /\ DigestsOf(notifications, "u1") = 1
    /\ Live(cache, DigestKey("u1"))
    /\ cacheUp
    /\ result.message = "Notification digests processed"

\* C8: however digest runs overlap, no user has more than one digest (all
\* the runs of a behaviour lie within the same 24 hours).
C8_AtMostOneDigestPerUser ==
    \A u \in Users : DigestsOf(notifications, u) <= 1

\* The unread notifications of u created within the trailing 24 hours
UnreadRecent(ns, u) ==
    SumCopies(ns, {n \in Docs(ns) :
                     /\ n.user_id = u
                     /\ n.read = FALSE
                     /\ n.created_at >= now - 24 * SecondsPerHour})

\* C9: a digest run creates a digest only for a user with at least 5 unread
\* notifications created within the trailing 24 hours.
C9_DigestOnlyFromFiveUnread ==
    [][\A u \in Users :
        DigestsOf(notifications', u) > DigestsOf(notifications, u) =>
            UnreadRecent(notifications, u) >= 5]_vars

\* A run gave u2 a digest and gave none to u1, who has 4 unread
\* notifications and a fifth that is read, old or of another type
C9_Witness ==
    /\ DigestsOf(notifications, "u2") = 1
    /\ DigestsOf(notifications, "u1") = 0
    /\ DigestUnreadCount(notifications, "u1") = 4
    /\ SumCopies(notifications,
                 {n \in Docs(notifications) : n.user_id = "u1"}) = 5

----------------------------------------------------------------------------
(* Properties of the engagement score *)

\* The events of skill s that the trailing hour holds, of the counted types
WindowEvents(s, types) ==
    {e \in Docs(events) :
        /\ e.skill_id = s
        /\ e.timestamp >= now - SecondsPerHour
        /\ e.event_type \in types}

WindowCount(s, type) == SumCopies(events, WindowEvents(s, {type}))

\* C10: the engagement score an engagement run writes for a skill is
\* views*1 + likes*3 + downloads*5 + comments*4 + unique_users*2 over the
\* events of the trailing window, unique_users being the number of distinct
\* users among them; counts 10, 4, 2, 1, 3 give 42.
C10_WeightedScore ==
    [][RunEngagementNow =>
        /\ EngagementScore(10, 4, 2, 1, 3) = 42
        /\ \A s \in Skills :
            LET counted == WindowEvents(s, EngagementEventTypes)
            IN (app # NoApp /\ dbUp /\ counted # {}) =>
                  skills'[s].engagement_score =
                      WindowCount(s, "skill_view") * 1
                      + WindowCount(s, "skill_like") * 3
                      + WindowCount(s, "skill_download") * 5
                      + WindowCount(s, "skill_comment") * 4
                      + Cardinality({e.user_id : e \in counted}) * 2]_vars

\* A run has scored a skill with one view and one like from two users
C10_Witness ==
    \E s \in Skills :
        /\ skills[s].views_count = 1
        /\ skills[s].likes_count = 1
        /\ skills[s].engagement_score = 8

----------------------------------------------------------------------------
(* Properties of the engagement counters *)

\* The events of skill s of one type that the store holds
StoredCount(s, type) ==
    SumCopies(events,
              {e \in Docs(events) : e.skill_id = s /\ e.event_type = type})

\* C11: over any sequence of engagement runs each event is added to its
\* skill's counters at most once: no counter exceeds the number of events of
\* its type that the store holds for the skill (the counters start at 0 and
\* the store loses no event).
C11_EachEventCountedOnce ==
    \A s \in Skills :
        /\ skills[s].views_count <= StoredCount(s, "skill_view")
        /\ skills[s].likes_count <= StoredCount(s, "skill_like")
        /\ skills[s].downloads_count <= StoredCount(s, "skill_download")
        /\ skills[s].comments_count <= StoredCount(s, "skill_comment")

----------------------------------------------------------------------------
(* Properties of the trending list *)

\* The events of skill s of one type within the trailing day
DayCount(s, type) ==
    SumCopies(events,
              {e \in Docs(events) :
                 /\ e.skill_id = s
                 /\ e.event_type = type
                 /\ e.timestamp >= now - 1 * SecondsPerDay})

\* C12: the trending score a trending run computes for a skill with windowed
\* counts v, l, d, c is v + 2*l + 3*d + 1.5*c (stated on twice the score, to
\* stay within the integers).
C12_TrendingFormula ==
    [][(RunTrendingNow /\ app # NoApp /\ dbUp) =>
        \A s \in Skills :
            skills'[s].trending_updated_at # skills[s].trending_updated_at =>
                2 * skills'[s].trending_score =
                    2 * DayCount(s, "skill_view")
                    + 4 * DayCount(s, "skill_like")
                    + 6 * DayCount(s, "skill_download")
                    + 3 * DayCount(s, "skill_comment")]_vars

TrendingKey == <<"trending", "skills">>

\* The skills that have an event of the trending types within the trailing
\* day
TrendingEntities ==
    {e.skill_id :
        e \in {x \in Docs(events) :
                 /\ x.event_type \in TrendingEventTypes
                 /\ x.timestamp >= now - 1 * SecondsPerDay}}

\* C13: the list a trending run writes to the cache holds at most 50
\* entities, in descending order of trending score and, at equal scores, of
\* latest activity, and no entity that the list leaves out has a higher
\* score than one that it holds.
\* (Only trending runs write the list here, and neither the events nor the
\* clock change, so the list in the cache is the one the last run wrote.)
C13_TopNSorted ==
    TrendingKey \in DOMAIN cache =>
        LET list == cache[TrendingKey].value.data
            held == {list[i].skill_id : i \in DOMAIN list}
        IN /\ Len(list) <= 50
           /\ \A i, j \in DOMAIN list :
                i < j =>
                    \/ list[i].trending_score > list[j].trending_score
                    \/ /\ list[i].trending_score = list[j].trending_score
                       /\ list[i].latest_activity >= list[j].latest_activity
           /\ \A g \in TrendingEntities \ held : \A i \in DOMAIN list :
                TrendingGroup(events, g, 1).trending_score
                    <= list[i].trending_score

\* A run has written a full list, cut by the limit, whose first entity
\* scores higher than its last

C13_Witness ==
    /\ TrendingKey \in DOMAIN cache
    /\ LET list == cache[TrendingKey].value.data
       IN /\ Len(list) = 50
          /\ list[1].trending_score > list[50].trending_score
          /\ TrendingEntities \ {list[i].skill_id : i \in DOMAIN list} # {}

----------------------------------------------------------------------------
(* Properties of a pass over several entities *)

\* C14: when the processing of one entity raises, the run goes on with the
\* remaining entities: a digest pass returns only when no candidate but the
\* one it has in hand is left.
C14_OthersStillProcessed ==
    [][\A c \in Contexts :
        (c \in DOMAIN runs /\ c \notin DOMAIN runs') =>
            Cardinality(runs[c].todo) <= 1]_vars

\* C15: processed_items of the result a task invocation returns is the
\* number of entities the invocation processed: for a trending run, the
\* skills it scored.
C15_ProcessedItemsCounts ==
    [][RunTrendingNow =>
        result'.processed_items =
            IF app # NoApp /\ dbUp
            THEN Cardinality(TrendingEntities \cap DOMAIN skills)
            ELSE 0]_vars

----------------------------------------------------------------------------
(* Properties of the daily analytics *)

\* C16: when the entry daily_analytics:<today> exists, an analytics run
\* aggregates nothing (so it cannot fail on the store) and writes nothing to
\* the cache: the aggregate stays as the first run of the day stored it.
C16_SecondRunLeavesAggregate ==
    [][(RunAnalyticsNow /\ Live(cache, DailyKey)) =>
        /\ cache' = cache
        /\ cacheUp => ~LoggedError("analytics_aggregation")]_vars

\* A second run has returned, after events came in that the aggregate the
\* first run stored does not count
C16_Witness ==
    /\ Live(cache, DailyKey)
    /\ cache[DailyKey].value.data # DailyAggregation(events)
    /\ result.message = "Analytics data aggregated"

----------------------------------------------------------------------------
(* Properties of the cache maintenance *)

\* The hit rate that get_cache_stats reports, hits / (hits + misses) as a
\* percentage rounded to two decimals, is below 60: the exact rate is below
\* 59.995 (hits / total < 11999 / 20000), or no request was counted and the
\* rate is reported as 0
ReportedBelowSixty ==
    \/ cacheStats.hits + cacheStats.misses = 0
    \/ cacheStats.hits * 20000 < 11999 * (cacheStats.hits + cacheStats.misses)

\* The cache after a warm of the trending entry: the empty list, for 900
\* seconds
Warmed ==
    [k \in DOMAIN cache \cup {TrendingKey} |->
        IF k = TrendingKey
        THEN [value |-> [enc |-> "json", data |-> << >>], expires |-> now + 900]
        ELSE cache[k]]

----------------------------------------------------------------------------
(* SpecCleanup: POST /cleanup on a store that holds events and            *)
(* notifications on both sides of the cutoff, while time passes and the   *)
(* store comes and goes                                                   *)

\* days_old values the endpoint lets through (Range(min=1, max=365))
DaysOld == {1, 2}

\* Creation times around the cutoffs of the two days_old values: the second
\* before StartOfTime minus one day, that instant, the instants one and two
\* engagement intervals later, and the instant two days before StartOfTime
CleanupTimes ==
    {StartOfTime - SecondsPerDay - 1, StartOfTime - SecondsPerDay,
     StartOfTime - SecondsPerDay + Interval("engagement_metrics"),
     StartOfTime - 2 * SecondsPerDay}

InitCleanup ==
    /\ InitScheduler
    /\ now = StartOfTime
    /\ dbUp = TRUE
    /\ cacheUp = TRUE
    /\ cacheStats = [hits |-> 1, misses |-> 1]
    /\ \E S \in SUBSET {Event("s1", "u1", "skill_view", t) : t \in CleanupTimes} :
          events = SetToBag(S) (+) Copies(Event("s1", "u2", "skill_like",
                                               StartOfTime - SecondsPerDay - 1), 2)
    /\ \E S \in SUBSET {Notification("u1", "like_received", r, t) :
                          r \in BOOLEAN,
                          t \in {StartOfTime - SecondsPerDay - 1,
                                 StartOfTime - SecondsPerDay}} :
          notifications = SetToBag(S)
    /\ skills = [s \in Skills |-> NewSkill]
    /\ users = [u \in Users |-> NewUser]
    /\ cache = EmptyCache

Cleanup == \E d \in DaysOld : CleanupOldData(d)

NextCleanup ==
    \/ Cleanup
    \/ Tick
    \/ StoreOutage

SpecCleanup == InitCleanup /\ [][NextCleanup]_vars

\* C18: a cleanup that reaches the store leaves no event created strictly
\* before now minus days_old days and no read notification created strictly
\* before it; every other event and notification, so every event at or
\* after the cutoff, every notification at or after it and every unread
\* notification, is there afterwards in as many copies as before, and
\* nothing appears.  A cleanup deletes nothing else in any case.
C18_CleanupDeletesExactlyOld ==
    [][\A d \in DaysOld :
          CleanupOldData(d) =>
             LET cutoff == now - d * SecondsPerDay
                 docsE == Docs(events) \cup Docs(events')
                 docsN == Docs(notifications) \cup Docs(notifications')
             IN /\ \A e \in docsE :
                      CopiesIn(e, events') =
                         IF dbUp /\ e.timestamp < cutoff
                         THEN 0 ELSE CopiesIn(e, events)
                /\ \A n \in docsN :
                      CopiesIn(n, notifications') =
                         IF dbUp /\ n.read /\ n.created_at < cutoff
                         THEN 0 ELSE CopiesIn(n, notifications)]_vars

\* A cleanup has run and has left an event created at the cutoff of one
\* day, an unread notification created before it and a read one created at
\* it, and neither an event nor a read notification older than that
C18_Witness ==
    /\ lastCall = "cleanup"
    /\ now = StartOfTime
    /\ BagIn(Event("s1", "u1", "skill_view", StartOfTime - SecondsPerDay), events)
    /\ BagIn(Notification("u1", "like_received", FALSE,
                          StartOfTime - SecondsPerDay - 1), notifications)
    /\ BagIn(Notification("u1", "like_received", TRUE,
                          StartOfTime - SecondsPerDay), notifications)
    /\ \A e \in Docs(events) : e.timestamp >= StartOfTime - SecondsPerDay
    /\ \A n \in Docs(notifications) :
          n.read => n.created_at >= StartOfTime - SecondsPerDay


----------------------------------------------------------------------------
(* SpecRestart: a scheduler that runs with an app and whose loops sleep,  *)
(* stopped and started again while the loops go on                        *)

InitRestart == SleepingScheduler /\ InitSmallStore(1, 1)

NextRestart ==
    \/ StartWithApp
    \/ StopBegin
    \/ StopReturn
    \/ LoopChecks
    \/ LoopExecutes
    \/ OrphanChecks
    \/ OrphanExecutes

SpecRestart == InitRestart /\ [][NextRestart]_vars

\* The loop threads of a task that are inside a pass
ExecutingLoops(name) ==
    (IF name \in DOMAIN batch_threads /\ batch_threads[name].pc = "exec"
     THEN 1 ELSE 0)
    + SumCopies(orphans, {o \in Docs(orphans) :
                             o.name = name /\ o.thread.pc = "exec"})

\* C19: whatever start() and stop() calls were made, no task has two
\* scheduled runs inside their pass at the same time.
C19_ScheduledRunsSequential ==
    \A n \in Names : ExecutingLoops(n) <= 1


----------------------------------------------------------------------------
(* SpecStatus: GET /status called at any point of the life of a scheduler *)
(* driven through the control surface                                     *)

\* GET /status: the call reads self.running and self.batch_threads and
\* assigns nothing
StatusEndpoint ==
    /\ lastCall' = "status"
    /\ UNCHANGED <<running, app, batch_threads, orphans, stopper, result,
                   envVars, dataVars, runs>>

NextStatus ==
    \/ StartEndpoint
    \/ StopBegin
    \/ StopReturn
    \/ LoopChecks
    \/ LoopExecutes
    \/ OrphanChecks
    \/ OrphanExecutes
    \/ StatusEndpoint

SpecStatus == Init /\ [][NextStatus]_vars

\* C20: a status() call, before the first start(), while the scheduler
\* runs or after stop(), changes neither the scheduler (running flag, app,
\* registry, loops) nor the store nor the cache, and what it returns is the
\* running flag and an alive flag for each of the five tasks, no more and
\* no fewer.
C20_StatusReadOnlyAndComplete ==
    [][StatusEndpoint =>
          /\ UNCHANGED <<running, app, batch_threads, orphans, stopper>>
          /\ UNCHANGED <<storeVars, cache>>
          /\ GetBatchStatus.running = running
          /\ DOMAIN GetBatchStatus.active_threads = Names
          /\ \A n \in DOMAIN GetBatchStatus.active_threads :
                GetBatchStatus.active_threads[n] \in BOOLEAN]_vars


\* C21: a loop ends only at the test at the top of a cycle, and only when
\* that test finds the running flag false: a loop that ends was at the top
\* of its cycle or asleep, never inside a pass, and the flag was false; a
\* stop() issued while a loop is inside a pass leaves that loop inside it.
C21_StopsOnlyAtTopOfCycle ==
    [][/\ \A n \in DOMAIN batch_threads \cap DOMAIN batch_threads' :
             (IsAlive(batch_threads[n]) /\ ~IsAlive(batch_threads'[n])) =>
                /\ ~running
                /\ batch_threads[n].pc \in {"top", "sleep"}
       /\ BagCardinality(orphans') < BagCardinality(orphans) =>
             /\ ~running
             /\ \E o \in Docs(orphans) :
                   /\ o.thread.pc \in {"top", "sleep"}
                   /\ orphans' = Remove(orphans, o)
       /\ StopBegin =>
             /\ \A n \in DOMAIN batch_threads :
                   batch_threads[n].pc = "exec" => batch_threads'[n].pc = "exec"
             /\ orphans' = orphans]_vars

\* stop() was called while one loop was inside a pass: that loop is still
\* inside it, while another loop has met the false flag and ended
C21_Witness ==
    /\ ~running
    /\ \E n \in DOMAIN batch_threads : batch_threads[n].pc = "exec"
    /\ \E n \in DOMAIN batch_threads : batch_threads[n].pc = "dead"


----------------------------------------------------------------------------
(* SpecLive: the scheduler of Spec with its threads scheduled fairly: a   *)
(* pass that was called returns, a sleep that began elapses, and a join   *)
(* comes back or times out                                                *)

Fairness ==
    /\ \A n \in Names : WF_vars(LoopCheck(n)) /\ WF_vars(LoopExecute(n))
    /\ WF_vars(OrphanChecks)
    /\ WF_vars(OrphanExecutes)
    /\ WF_vars(StopReturn)

SpecLive == Init /\ [][Next]_vars /\ Fairness

\* C22: if from some point on the running flag stays false (stop() was
\* called and start() is not called again), then from some point on no loop
\* is left, registered or not: every loop has returned.
C22_LoopsEndAfterStop ==
    <>[](~running) => <>[](LiveThreads = 0)

\* stop() has returned, and every loop that start() had launched has
\* returned as well
C22_Witness ==
    /\ lastCall = "stop"
    /\ ~running
    /\ DOMAIN batch_threads = Names
    /\ LiveThreads = 0


\* C23: an engagement run that reaches the store adds, for every skill with
\* a counted event in the trailing hour, the hour's number of views, likes,
\* downloads and comments to the skill's four counters (what the counters
\* held before stays in them) and sets its engagement_score to the hour's
\* weighted score; a skill with no counted event in the hour keeps its
\* counters and its score.
C23_RunIncrementsCounters ==
    [][(RunEngagementNow /\ app # NoApp /\ dbUp) =>
        \A s \in Skills :
            LET counted == WindowEvents(s, EngagementEventTypes)
            IN IF counted # {}
               THEN /\ skills'[s].views_count =
                          skills[s].views_count + WindowCount(s, "skill_view")
                    /\ skills'[s].likes_count =
                          skills[s].likes_count + WindowCount(s, "skill_like")
                    /\ skills'[s].downloads_count =
                          skills[s].downloads_count
                          + WindowCount(s, "skill_download")
                    /\ skills'[s].comments_count =
                          skills[s].comments_count
                          + WindowCount(s, "skill_comment")
                    /\ skills'[s].engagement_score =
                          WindowCount(s, "skill_view") * 1
                          + WindowCount(s, "skill_like") * 3
                          + WindowCount(s, "skill_download") * 5
                          + WindowCount(s, "skill_comment") * 4
                          + Cardinality({e.user_id : e \in counted}) * 2
               ELSE /\ skills'[s].views_count = skills[s].views_count
                    /\ skills'[s].likes_count = skills[s].likes_count
                    /\ skills'[s].downloads_count = skills[s].downloads_count
                    /\ skills'[s].comments_count = skills[s].comments_count
                    /\ skills'[s].engagement_score =
                          skills[s].engagement_score]_vars

\* Two runs have each added the one like of the trailing hour to a skill's
\* counter, while the skill without events is as it was created
C23_Witness ==
    /\ skills["s1"].likes_count = 2
    /\ skills["s1"].engagement_score = 5
    /\ skills["s2"] = NewSkill


\* C24: whatever start() and stop() calls were made, every loop that has
\* not returned is the thread the registry holds under its task's name: no
\* live loop is outside the registry that status() reads, and no task has
\* more than one live loop.
C24_LiveLoopsAreRegistered ==
    /\ orphans = EmptyBag
    /\ \A n \in Names : LiveLoops(n) <= 1


----------------------------------------------------------------------------
(* SpecStartRace: start_batch_processing step by step, called from two    *)
(* request threads of the control surface; nothing serialises them        *)

Callers == {"start_a", "start_b"}

\* if self.running: log a warning and return; otherwise go on
StartCheck(c) ==
    /\ c \notin DOMAIN runs
    /\ IF running
       THEN /\ lastCall' = "start_rejected"
            /\ UNCHANGED runs
       ELSE /\ runs' = [x \in DOMAIN runs \cup {c} |->
                           IF x = c THEN [pc |-> "checked"] ELSE runs[x]]
            /\ UNCHANGED lastCall
    /\ UNCHANGED <<running, app, batch_threads, orphans, stopper, result,
                   envVars, dataVars>>

\* self.app = app; self.running = True; the five _start_*_processor calls,
\* each of which stores its new Thread under the task's name
StartLaunch(c, a) ==
    /\ c \in DOMAIN runs
    /\ runs[c] = [pc |-> "checked"]
    /\ app' = a
    /\ running' = TRUE
    /\ orphans' = orphans (+) Displaced
    /\ batch_threads' = [n \in Names |-> NewThread]
    /\ lastCall' = "start"
    /\ runs' = [x \in DOMAIN runs \ {c} |-> runs[x]]
    /\ UNCHANGED <<stopper, result, envVars, dataVars>>

StartChecks == \E c \in Callers : StartCheck(c)
StartLaunches == \E c \in Callers : StartLaunch(c, NoApp)

NextStartRace ==
    \/ StartChecks
    \/ StartLaunches
    \/ LoopChecks
    \/ LoopExecutes
    \/ OrphanChecks
    \/ OrphanExecutes

SpecStartRace == Init /\ [][NextStartRace]_vars

\* C25: when two start() calls overlap on a stopped scheduler at most one
\* of them launches loops: no task ever has more than one live loop.
C25_OneLaunchUnderConcurrentStarts ==
    \A n \in Names : LiveLoops(n) <= 1


----------------------------------------------------------------------------
(* SpecNoApp: a scheduler started through the control surface, so without *)
(* an app, over a store that holds an event of the trailing hour and five *)
(* unread notifications; its loops and the on-demand calls run while      *)
(* store and cache come and go                                            *)

InitNoApp ==
    /\ InitScheduler
    /\ now = StartOfTime
    /\ dbUp = TRUE
    /\ cacheUp = TRUE
    /\ cacheStats = [hits |-> 3, misses |-> 1]
    /\ events = Copies(Event("s1", "u1", "skill_view", StartOfTime), 1)
    /\ skills = [s \in Skills |-> NewSkill]
    /\ users = [u \in Users |-> NewUser]
    /\ notifications =
         Copies(Notification("u1", "like_received", FALSE, StartOfTime),
                DigestThreshold)
    /\ cache = EmptyCache

NextNoApp ==
    \/ StartEndpoint
    \/ LoopChecks
    \/ LoopExecutes
    \/ RunNow
    \/ StoreOutage
    \/ CacheOutage

SpecNoApp == InitNoApp /\ [][NextNoApp]_vars

\* The tasks whose function begins with the test of self.app
AppBatchTypes == {"engagement", "trending", "notifications", "analytics"}

AppLoopNames ==
    {"engagement_metrics", "trending_content", "notification_digest",
     "analytics_aggregation"}

\* C26: while the scheduler holds no app, an engagement, trending, digest
\* or analytics run, made by a loop or on demand, leaves the events, the
\* skills, the users, the notifications and the cache as they are, and logs
\* no error even when the store or the cache does not answer: it returns
\* before it touches either.
C26_NoAppNoWork ==
    [][app = NoApp =>
          /\ \A b \in AppBatchTypes :
                ProcessImmediateBatch(b) => UNCHANGED dataVars
          /\ \A n \in AppLoopNames :
                LoopExecute(n) =>
                   /\ UNCHANGED dataVars
                   /\ ~LoggedError(n)
                   /\ ~batch_threads'[n].logged_error]_vars

\* Without an app, the engagement loop has made a pass and sleeps and an
\* on-demand engagement run has returned: the event of the trailing hour is
\* counted nowhere, no digest exists and the cache is empty
C26_Witness ==
    /\ app = NoApp
    /\ running
    /\ batch_threads["engagement_metrics"].pc = "sleep"
    /\ batch_threads["notification_digest"].pc = "sleep"
    /\ result.message = "Engagement metrics processed"
    /\ ~dbUp
    /\ skills = [s \in Skills |-> NewSkill]
    /\ users = [u \in Users |-> NewUser]
    /\ BagCardinality(notifications) = DigestThreshold
    /\ cache = EmptyCache


----------------------------------------------------------------------------
(* SpecRunNow: on-demand runs of every name, known or not, on a scheduler *)
(* without an app and on one that holds an app, as store and cache come   *)
(* and go                                                                 *)

InitRunNow ==
    /\ InitScheduler \/ SleepingScheduler
    /\ now = StartOfTime
    /\ dbUp = TRUE
    /\ cacheUp = TRUE
    /\ cacheStats = [hits |-> 1, misses |-> 1]
    /\ events = Copies(Event("s1", "u1", "skill_view", StartOfTime), 1)
    /\ skills = [s \in Skills |-> NewSkill]
    /\ users = [u \in Users |-> NewUser]
    /\ notifications =
         Copies(Notification("u1", "like_received", FALSE, StartOfTime),
                DigestThreshold)
    /\ cache = EmptyCache

NextRunNow ==
    \/ RunNow
    \/ StoreOutage
    \/ CacheOutage

SpecRunNow == InitRunNow /\ [][NextRunNow]_vars

\* C27: run_now of one of the five known task names returns success = true
\* and processed_items = 0 whether the task's function did its work, left
\* early or failed on the store or the cache; of any other name it returns
\* success = false.
C27_RunNowAlwaysSucceeds ==
    [][\A b \in BatchTypes :
          ProcessImmediateBatch(b) =>
             /\ result'.success = (b \in KnownBatchTypes)
             /\ result'.processed_items = 0]_vars

\* An analytics run_now on a scheduler that holds an app has reported
\* success although no aggregate of the day is in the cache
C27_Witness ==
    /\ app = TheApp
    /\ result.success
    /\ result.message = "Analytics data aggregated"
    /\ result.processed_items = 0
    /\ DailyKey \notin DOMAIN cache


\* C28: a cache-maintenance run that finds Redis available and the reported
\* hit rate below 60% leaves the empty list under trending:skills, whatever
\* list was there before; and once the entry holds the empty list it holds
\* it after every step that is not a trending run.
C28_WarmEmptiesTrendingList ==
    [][/\ (RunMaintenanceNow /\ cacheUp /\ ReportedBelowSixty) =>
             /\ TrendingKey \in DOMAIN cache'
             /\ cache'[TrendingKey].value.data = << >>
       /\ (/\ TrendingKey \in DOMAIN cache
           /\ cache[TrendingKey].value.data = << >>
           /\ ~RunTrendingNow) =>
             /\ TrendingKey \in DOMAIN cache'
             /\ cache'[TrendingKey].value.data = << >>]_vars

\* A trending run has scored a skill and cached its list, and a maintenance
\* run at a low hit rate has since put the empty list in its place
C28_Witness ==
    /\ skills["s1"].trending_score > 0
    /\ result.message = "Cache maintenance completed"
    /\ TrendingKey \in DOMAIN cache
    /\ cache[TrendingKey].value.data = << >>


\* C29: a digest run made while the cache is unavailable (the app held, the
\* store answering) creates one more digest for every user with at least 5
\* qualifying unread notifications, whether or not a marker was written for
\* that user earlier, and records no marker: the cache is as it was.
C29_NoCacheNoDedup ==
    [][(RunDigestNow /\ app # NoApp /\ dbUp /\ ~cacheUp) =>
          /\ \A u \in Users :
                DigestUnreadCount(notifications, u) >= 5 =>
                   DigestsOf(notifications', u) = DigestsOf(notifications, u) + 1
          /\ cache' = cache]_vars

\* Two runs without the cache have each given u2 a digest, and there is no
\* marker for u2
C29_Witness ==
    /\ ~cacheUp
    /\ result.message = "Notification digests processed"
    /\ DigestsOf(notifications, "u2") = 2
    /\ DigestKey("u2") \notin DOMAIN cache


\* C30: a marker digest_sent:<user> is in the cache only if a digest
\* notification of that user is in the store; a creation that raises writes
\* no marker and no notification, and ends the pass with the candidates that
\* were left.
C30_MarkerOnlyAfterDigest ==
    /\ [](\A u \in Users :
             DigestKey(u) \in DOMAIN cache => DigestsOf(notifications, u) >= 1)
    /\ [][\A c \in Contexts :
             DigestCreateRaises(c) =>
                /\ cache' = cache
                /\ notifications' = notifications
                /\ c \notin DOMAIN runs']_vars

\* A pass gave u1 a digest and its marker, then failed on the creation for
\* u2 and returned: u2 has neither digest nor marker
C30_Witness ==
    /\ ~dbUp
    /\ DOMAIN runs = {}
    /\ DigestsOf(notifications, "u1") = 1
    /\ DigestKey("u1") \in DOMAIN cache
    /\ DigestsOf(notifications, "u2") = 0
    /\ DigestKey("u2") \notin DOMAIN cache

====
